---- MODULE Spec2Model ----
(***************************************************************************)
(* Model of the negotiation backend (backend/app/main.py,                  *)
(* backend/core/orchestrator.py, backend/logic/neurosymbolic.py).          *)
(*                                                                         *)
(* One case document with its message sub-collection is modelled.  HTTP    *)
(* handlers are atomic actions (they are async functions that make only    *)
(* blocking Firestore calls); the turn functions run in worker threads     *)
(* started by the handlers and are split at their Firestore writes, so     *)
(* that the decision endpoints, and with MaxWorkers > 1 other turns,       *)
(* interleave with a turn as they do in the server.  The LLM, the vector   *)
(* index and the clock are the environment: every outcome the code         *)
(* distinguishes (text, timeout, exception, elapsed > 240 s) is a          *)
(* nondeterministic input.  Firestore is assumed available in Spec and     *)
(* PvpSpec; in RunSpec every Firestore call may raise.                     *)
(*                                                                         *)
(* Spec is the server of a case started in AI mode, PvpSpec the server of  *)
(* a case started in PvP mode, GemSpec one call_gemini_with_retry,         *)
(* EvalSpec one evaluate_game_state, AuditSpec one validate_turn           *)
(* (backend/core/auditor.py), RunSpec the run requests of a case and the   *)
(* run_case threads they start, StreamSpec the NDJSON stream of one turn   *)
(* request.                                                                *)
(*                                                                         *)
(* Rounds are stored in tenths (round 1 -> 10, round 2.5 -> 25) because    *)
(* the mediator writes the fractional round 2.5.                           *)
(***************************************************************************)
EXTENDS Integers, Sequences, FiniteSets, TLC

\* Python None / a missing document field.
None == "none"

\* ------------------------------------------------------------------ bounds
\* agent and mediator messages in the case's message collection
MaxMsgs == 9
\* turn worker threads in flight at once
MaxWorkers == 1
\* largest max_retries argument explored for call_gemini_with_retry
MaxRetriesArg == 3
\* largest current_round and max_rounds argument explored for evaluate_game_state
MaxRoundArg == 5
\* most citation-shaped passages in an agent text given to validate_turn
MaxPassages == 2
\* most index records one Pinecone query returns (top_k is 5)
MaxMatches == 1
\* run requests of one case that start a run_case thread
MaxRuns == 2
\* progress records put on the queue of one turn request
MaxProgress == 2
\* heartbeat records of one turn request
MaxHeartbeats == 2

\* ------------------------------------------------------- program constants
MAX_ROUNDS == 4
MAX_AUDITOR_RETRIES == 2
\* default of run_negotiation_turn's current_round parameter; next_turn never passes it
DEFAULT_CURRENT_ROUND == 1

Roles == {"plaintiff", "defendant"}
Users == {"u1", "u2"}
Workers == 1..MaxWorkers

\* round n in tenths
R(n) == 10 * n
MEDIATOR_ROUND == 25

\* ----------------------------------------------------- neurosymbolic.py
\* JSON values an LLM can put in "counter_offer_rm".  k is the Python type;
\* n the number (an int, or a float given in tenths); s a string as a tuple
\* of characters.
OfferValues ==
  { [k |-> "null",  n |-> 0,   s |-> <<>>],
    [k |-> "bool",  n |-> 1,   s |-> <<>>],
    [k |-> "int",   n |-> -5,  s |-> <<>>],
    [k |-> "int",   n |-> 7,   s |-> <<>>],
    [k |-> "int",   n |-> 20,  s |-> <<>>],
    [k |-> "float", n |-> 199, s |-> <<>>],
    [k |-> "float", n |-> -5,  s |-> <<>>],
    [k |-> "str",   n |-> 0,   s |-> <<"2", ",", "0">>],
    [k |-> "str",   n |-> 0,   s |-> <<" ", "7">>],
    [k |-> "str",   n |-> 0,   s |-> <<"R", "M", "5">>] }

\* Optional[int]: <<>> is None, <<n>> the integer n
NoInt == <<>>
Some(n) == <<n>>
Val(o) == o[1]

\* floor_price values of a turn request
FloorValues == {NoInt, Some(20)}

Digits == {"0", "1", "2", "3", "4", "5", "6", "7", "8", "9"}

DigitVal(c) ==
  CASE c = "0" -> 0 [] c = "1" -> 1 [] c = "2" -> 2 [] c = "3" -> 3 [] c = "4" -> 4
    [] c = "5" -> 5 [] c = "6" -> 6 [] c = "7" -> 7 [] c = "8" -> 8 [] c = "9" -> 9

\* str.replace(",", "")
RECURSIVE RemoveCommas(_)
RemoveCommas(s) ==
  IF s = <<>> THEN <<>>
  ELSE IF Head(s) = "," THEN RemoveCommas(Tail(s))
       ELSE <<Head(s)>> \o RemoveCommas(Tail(s))

\* str.strip()
RECURSIVE StripLeft(_)
StripLeft(s) == IF s # <<>> /\ Head(s) = " " THEN StripLeft(Tail(s)) ELSE s

RECURSIVE StripRight(_)
StripRight(s) ==
  IF s # <<>> /\ s[Len(s)] = " " THEN StripRight(SubSeq(s, 1, Len(s) - 1)) ELSE s

Strip(s) == StripRight(StripLeft(s))

\* str.isdigit(): non-empty and every character a digit
IsDigit(s) == s # <<>> /\ \A i \in 1..Len(s) : s[i] \in Digits

\* int(str) of a digit string
RECURSIVE StrToInt(_)
StrToInt(s) ==
  IF s = <<>> THEN 0 ELSE 10 * StrToInt(SubSeq(s, 1, Len(s) - 1)) + DigitVal(s[Len(s)])

\* int(float): truncation toward zero, the float given in tenths
TruncTenths(t) == IF t >= 0 THEN t \div 10 ELSE -((-t) \div 10)

\* _to_int_offer: None when there is no usable amount
to_int_offer(value) ==
  IF value.k = "null" THEN NoInt
  ELSE IF value.k = "bool" THEN NoInt
  ELSE IF value.k = "int" THEN (IF value.n >= 0 THEN Some(value.n) ELSE NoInt)
  ELSE IF value.k = "float"
    THEN (IF TruncTenths(value.n) >= 0 THEN Some(TruncTenths(value.n)) ELSE NoInt)
  ELSE IF value.k = "str"
    THEN (IF IsDigit(Strip(RemoveCommas(value.s)))
            THEN Some(StrToInt(Strip(RemoveCommas(value.s))))
            ELSE NoInt)
  ELSE NoInt

\* evaluate_game_state(agent_output, floor_price, current_round, max_rounds)
evaluate_game_state(counter_offer_rm, floor_price, current_round, max_rounds) ==
  LET offer == to_int_offer(counter_offer_rm) IN
  IF offer = NoInt
    THEN [has_offer |-> FALSE, offer_amount |-> NoInt, meets_floor |-> FALSE,
          final_round |-> current_round >= max_rounds]
    ELSE [has_offer |-> TRUE, offer_amount |-> offer,
          meets_floor |-> Val(offer) >= floor_price,
          final_round |-> current_round >= max_rounds]

\* the game_eval the turn functions start from and keep on every fallback path
NoGameEval ==
  [has_offer |-> FALSE, offer_amount |-> NoInt, meets_floor |-> FALSE, final_round |-> FALSE]

\* "floor_price or 0"
FloorOrZero(floor_price) == IF floor_price = NoInt THEN 0 ELSE Val(floor_price)


\* ------------------------------------------------------------------ state
VARIABLES
  case,         \* the case document (cases/{caseId})
  messages,     \* the plaintiff, defendant and mediator messages, ordered by createdAt
  notes,        \* which other kinds of message (directive, system) the collection holds
  workers,      \* the turn threads started by next_turn and pvp_turn
  ev,           \* what the last step was: an HTTP exchange or a turn function's return
  lastSpeaker,  \* role of the last run_pvp_negotiation_turn that returned without error
  overlapped,   \* a turn was started while another turn was in flight
  gem,          \* one invocation of call_gemini_with_retry
  auditor,      \* one invocation of validate_turn
  evaluation,   \* one invocation of evaluate_game_state
  runs,         \* the run requests of a case and the run_case threads they started
  stream        \* the NDJSON stream of one next-turn or pvp-turn request

vars ==
  <<case, messages, notes, workers, ev, lastSpeaker, overlapped, gem,
    auditor, evaluation, runs, stream>>

\* start_case: the document written for mode "ai" and for mode "pvp"
NewCase(mode) ==
  [ mode                |-> mode,
    status              |-> "created",
    game_state          |-> None,
    pendingDecisionRole |-> None,
    settlement          |-> FALSE,
    plaintiffUserId     |-> IF mode = "pvp" THEN "u1" ELSE None,
    defendantUserId     |-> None,
    currentTurn         |-> IF mode = "pvp" THEN "plaintiff" ELSE None,
    turnStatus          |-> IF mode = "pvp" THEN "waiting" ELSE None,
    pvpRound            |-> IF mode = "pvp" THEN Some(1) ELSE NoInt ]

\* a message document: role, round (tenths), and the mediator's is_guidance;
\* fallback marks the mediator's fallback text
Msg(role, round) ==
  [role |-> role, round |-> round, is_guidance |-> FALSE, fallback |-> FALSE]

MediatorMsg(fallback) ==
  [role |-> "mediator", round |-> MEDIATOR_ROUND, is_guidance |-> TRUE, fallback |-> fallback]

\* the directive and system messages: no code reads them back from the
\* history, so only the kinds that are present are kept
NoNotes == {}

\* messages_ref.add of a directive or system message
AddNote(role) == notes' = notes \cup {role}

NoOffer == [k |-> "null", n |-> 0, s |-> <<>>]

IdleWorker ==
  [ pc          |-> "idle",
    role        |-> None,     \* user_role
    msg         |-> FALSE,    \* user_message is non-empty
    floor       |-> NoInt,    \* floor_price
    round       |-> NoInt,    \* derived_round / pvp_round
    med         |-> FALSE,    \* mediator_already_injected
    meets_floor |-> FALSE ]   \* game_eval["meets_floor"]

NoEv ==
  [ type |-> "none", op |-> None, role |-> None, uid |-> None,
    code |-> 0, detail |-> None,
    round |-> NoInt, current_round |-> NoInt, game_state |-> None,
    raw |-> NoOffer, floor |-> NoInt,
    auditor_passed |-> TRUE, generations |-> 0, prev_speaker |-> None,
    mediator_only |-> FALSE ]

\* gem while no call_gemini_with_retry invocation is modelled
GemIdle ==
  [ pc |-> "idle", max_retries |-> 0, same_model |-> FALSE, file_parts |-> FALSE,
    attempt |-> 0, active_model |-> "primary", fallback_used |-> FALSE,
    outcomes |-> <<>>, models |-> <<>>, sleeps |-> <<>>, requests |-> 0,
    result |-> None ]

\* auditor, evaluation, runs and stream while no such invocation is modelled
AuditorIdle == [pc |-> "idle"]

EvaluationIdle == [pc |-> "idle"]

RunsIdle == [pc |-> "idle"]

StreamIdle == [pc |-> "idle"]

\* a case started in AI mode
Init ==
  /\ case = NewCase("ai")
  /\ messages = <<>>
  /\ notes = NoNotes
  /\ workers = [w \in Workers |-> IdleWorker]
  /\ ev = NoEv
  /\ lastSpeaker = None
  /\ overlapped = FALSE
  /\ gem = GemIdle
  /\ auditor = AuditorIdle
  /\ evaluation = EvaluationIdle
  /\ runs = RunsIdle
  /\ stream = StreamIdle

\* a case started in PvP mode
PvpInit ==
  /\ case = NewCase("pvp")
  /\ messages = <<>>
  /\ notes = NoNotes
  /\ workers = [w \in Workers |-> IdleWorker]
  /\ ev = NoEv
  /\ lastSpeaker = None
  /\ overlapped = FALSE
  /\ gem = GemIdle
  /\ auditor = AuditorIdle
  /\ evaluation = EvaluationIdle
  /\ runs = RunsIdle
  /\ stream = StreamIdle

\* ------------------------------------------------------------ HTTP handlers
Http(code, detail) == [code |-> code, detail |-> detail]

\* case_data.get("currentTurn", "plaintiff")
CurrentTurn(c) == IF c.currentTurn = None THEN "plaintiff" ELSE c.currentTurn

\* the "truly final" test shared by next_turn and pvp_turn
CaseCompleted(c) == c.status = "done" /\ c.game_state \in {"settled", "deadlock"}

\* pvp_turn's participant check for one role
NotParticipant(c, user_role, userId) ==
  \/ /\ user_role = "plaintiff"
     /\ userId # None /\ c.plaintiffUserId # None /\ userId # c.plaintiffUserId
  \/ /\ user_role = "defendant"
     /\ userId # None /\ c.defendantUserId # None /\ userId # c.defendantUserId

\* pvp_turn's checks without the currentTurn check (a variant the turn
\* properties must tell apart from the handler)
PvpTurnValidateNoTurnCheck(c, user_role, userId) ==
  IF c.mode # "pvp" THEN Http(400, "not_pvp")
  ELSE IF NotParticipant(c, user_role, userId) THEN Http(403, "not_participant")
  ELSE IF c.defendantUserId = None THEN Http(400, "waiting_for_defendant")
  ELSE IF CaseCompleted(c) THEN Http(400, "case_already_completed")
  ELSE IF c.status = "pending_decision" \/ c.game_state = "pending_decision"
    THEN Http(400, "decision_pending")
  ELSE Http(200, "stream")

\* pvp_turn's checks without the pending_decision check
PvpTurnValidateNoPendingCheck(c, user_role, userId) ==
  IF c.mode # "pvp" THEN Http(400, "not_pvp")
  ELSE IF CurrentTurn(c) # user_role THEN Http(400, "not_your_turn")
  ELSE IF NotParticipant(c, user_role, userId) THEN Http(403, "not_participant")
  ELSE IF c.defendantUserId = None THEN Http(400, "waiting_for_defendant")
  ELSE IF CaseCompleted(c) THEN Http(400, "case_already_completed")
  ELSE Http(200, "stream")

\* pvp_turn's checks, in the handler's order; 200 when the turn is started
PvpTurnValidate(c, user_role, userId) ==
  IF c.mode # "pvp" THEN Http(400, "not_pvp")
  ELSE IF CurrentTurn(c) # user_role THEN Http(400, "not_your_turn")
  ELSE IF NotParticipant(c, user_role, userId) THEN Http(403, "not_participant")
  ELSE IF c.defendantUserId = None THEN Http(400, "waiting_for_defendant")
  ELSE IF CaseCompleted(c) THEN Http(400, "case_already_completed")
  ELSE IF c.status = "pending_decision" \/ c.game_state = "pending_decision"
    THEN Http(400, "decision_pending")
  ELSE Http(200, "stream")

\* next_turn's check
NextTurnValidate(c) ==
  IF CaseCompleted(c) THEN Http(400, "case_already_completed") ELSE Http(200, "stream")

InFlight == {w \in Workers : workers[w].pc # "idle"}

FreeWorker ==
  CHOOSE w \in Workers :
    workers[w].pc = "idle" /\ \A u \in Workers : workers[u].pc = "idle" => w <= u

Request(op, user_role, userId, http) ==
  [NoEv EXCEPT !.type = "request", !.op = op, !.role = user_role, !.uid = userId,
               !.code = http.code, !.detail = http.detail]

\* threading.Thread(target=run_in_thread).start()
StartThread(pc, user_role, user_message, floor_price) ==
  /\ InFlight # Workers
  /\ workers' = [workers EXCEPT ![FreeWorker] =
        [IdleWorker EXCEPT !.pc = pc, !.role = user_role, !.msg = user_message,
                           !.floor = floor_price]]
  /\ overlapped' = (overlapped \/ InFlight # {})

\* POST /api/cases/{caseId}/pvp-turn
pvp_turn(user_role, userId, user_message, floor_price) ==
  LET http == PvpTurnValidate(case, user_role, userId) IN
  /\ IF http.code = 200
       THEN StartThread("pvp_start", user_role, user_message, floor_price)
       ELSE UNCHANGED <<workers, overlapped>>
  /\ ev' = Request("pvp_turn", user_role, userId, http)
  /\ UNCHANGED <<case, messages, notes, lastSpeaker, gem, auditor, evaluation, runs, stream>>

\* POST /api/cases/{caseId}/next-turn
next_turn(user_message, floor_price) ==
  LET http == NextTurnValidate(case) IN
  /\ IF http.code = 200
       THEN StartThread("ai_start", "plaintiff", user_message, floor_price)
       ELSE UNCHANGED <<workers, overlapped>>
  /\ ev' = Request("next_turn", "plaintiff", None, http)
  /\ UNCHANGED <<case, messages, notes, lastSpeaker, gem, auditor, evaluation, runs, stream>>

\* POST /api/cases/{caseId}/join
join_case(userId) ==
  LET http ==
        IF case.mode # "pvp" THEN Http(400, "not_pvp")
        ELSE IF case.defendantUserId # None /\ case.defendantUserId # userId
          THEN Http(400, "already_joined")
        ELSE IF case.plaintiffUserId = userId THEN Http(400, "own_case")
        ELSE Http(200, "joined")
  IN
  /\ IF http.code = 200
       THEN /\ case' = [case EXCEPT !.defendantUserId = userId]
            /\ AddNote("system")
       ELSE UNCHANGED <<case, notes>>
  /\ ev' = Request("join_case", "defendant", userId, http)
  /\ UNCHANGED <<messages, workers, lastSpeaker, overlapped, gem, auditor, evaluation, runs, stream>>

\* generate_mediator_settlement's update, on both of its parse paths
StoreSettlement(c) == [c EXCEPT !.status = "done", !.settlement = TRUE]

\* POST /api/cases/{caseId}/accept-offer; settled is FALSE when
\* generate_mediator_settlement raises (the mediator call fails)
accept_final_offer(settled) ==
  /\ IF case.status = "done"
       THEN /\ ev' = Request("accept_offer", None, None, Http(200, "settled"))
            /\ UNCHANGED case
       ELSE IF settled
         THEN /\ case' = StoreSettlement(case)
              /\ ev' = Request("accept_offer", None, None, Http(200, "settled"))
         ELSE /\ ev' = Request("accept_offer", None, None, Http(500, "error"))
              /\ UNCHANGED case
  /\ UNCHANGED <<messages, notes, workers, lastSpeaker, overlapped, gem, auditor, evaluation, runs, stream>>

\* reject_final_offer's update
StoreDeadlock(c) == [c EXCEPT !.status = "deadlock", !.game_state = "deadlock"]

\* POST /api/cases/{caseId}/reject-offer
reject_final_offer ==
  /\ case' = StoreDeadlock(case)
  /\ AddNote("system")
  /\ ev' = Request("reject_offer", None, None, Http(200, "deadlock"))
  /\ UNCHANGED <<messages, workers, lastSpeaker, overlapped, gem, auditor, evaluation, runs, stream>>

\* POST /api/cases/{caseId}/continue-negotiation
continue_negotiation ==
  LET pending_role == case.pendingDecisionRole
      base == [case EXCEPT !.game_state = "active", !.pendingDecisionRole = None,
                           !.status = "active"]
  IN
  /\ case' = IF case.mode = "pvp" /\ pending_role # None
               THEN [base EXCEPT !.currentTurn = pending_role, !.turnStatus = "waiting"]
               ELSE base
  /\ ev' = Request("continue_negotiation", None, None, Http(200, "active"))
  /\ UNCHANGED <<messages, notes, workers, lastSpeaker, overlapped, gem, auditor, evaluation, runs, stream>>

\* ------------------------------------------------- orchestrator.py: shared
\* how a turn function obtained the agent's text.  "json": the model's text
\* parsed as JSON; "text": json.loads raised; "timeout": the 90 s
\* future.result timeout; "error": call_gemini_with_retry raised
LlmOutcomes == {"json", "text", "timeout", "error"}

\* the counter_offer_rm values the turn functions are run with
TurnOffers ==
  { [k |-> "null",  n |-> 0,   s |-> <<>>],
    [k |-> "int",   n |-> 7,   s |-> <<>>],
    [k |-> "float", n |-> 199, s |-> <<>>],
    [k |-> "str",   n |-> 0,   s |-> <<"2", ",", "0">>] }

\* response_json exists only when the text parsed
OfferOutcomes(llm) == IF llm = "json" THEN TurnOffers ELSE {NoOffer}

\* validate_turn on the agent text: a fallback text cites no law and passes
AuditOutcomes(llm) == IF llm \in {"timeout", "error"} THEN {TRUE} ELSE BOOLEAN

\* a history scan that never finds the mediator (a variant the mediator
\* property must tell apart from the code's scan)
MediatorNeverSeen(history) == FALSE

\* any(m.get("role") == "mediator" for m in history)
MediatorAlreadyInjected(history) ==
  \E i \in 1..Len(history) : history[i].role = "mediator"

\* inject_mediator_guidance: the message it adds; llm_ok is FALSE when the
\* mediator call (or anything else in the try block) raised
InjectMediatorGuidance(llm_ok) == MediatorMsg(~llm_ok)

Return(op, w) ==
  [NoEv EXCEPT !.type = "return", !.op = op, !.role = workers[w].role,
               !.floor = workers[w].floor, !.round = workers[w].round,
               !.prev_speaker = lastSpeaker]

\* --------------------------------------- orchestrator.py: run_negotiation_turn
CountRole(history, role) == Cardinality({i \in 1..Len(history) : history[i].role = role})

\* derived_round: plaintiff_count + 1, capped at MAX_ROUNDS
DerivedRound(history) ==
  IF CountRole(history, "plaintiff") + 1 > MAX_ROUNDS
    THEN MAX_ROUNDS
    ELSE CountRole(history, "plaintiff") + 1

\* Step 8 without the final-round branch (a variant the game-state property
\* must tell apart from the code's branches)
AiGameStateNoFinalRound(meets_floor, derived_round) ==
  IF meets_floor THEN "pending_accept" ELSE "active"

\* Step 8: game_state from game_eval["meets_floor"] and derived_round
AiGameState(meets_floor, derived_round) ==
  IF meets_floor THEN "pending_accept"
  ELSE IF derived_round >= MAX_ROUNDS THEN "pending_decision"
  ELSE "active"

\* "current_round" of the normal result
AiResultRound(derived_round, current_round) == derived_round

\* "current_round" of the result built in the except branch
AiErrorRound(derived_round, current_round) == current_round

\* generations of the defendant response in one turn (Step 6 has no loop)
DefendantGenerations(auditor_passed) == 1

\* the except branch of run_negotiation_turn
AiError(w) ==
  /\ ev' = [Return("run_negotiation_turn", w) EXCEPT
              !.current_round = Some(AiErrorRound(Val(workers[w].round), DEFAULT_CURRENT_ROUND)),
              !.game_state = "error", !.auditor_passed = FALSE]
  /\ workers' = [workers EXCEPT ![w] = IdleWorker]

\* Steps 1-2: read the case and the history, derive the round, save the directive
AiStart(w) ==
  /\ workers[w].pc = "ai_start"
  /\ LET derived_round == DerivedRound(messages)
         med == MediatorAlreadyInjected(messages)
     IN
     /\ IF workers[w].msg THEN AddNote("directive") ELSE UNCHANGED notes
     /\ workers' = [workers EXCEPT ![w] =
           [@ EXCEPT !.round = Some(derived_round), !.med = med,
                     !.pc = IF derived_round = 3 /\ ~med THEN "ai_mediator"
                                                          ELSE "ai_plaintiff"]]
  /\ ev' = NoEv
  /\ UNCHANGED <<case, messages, lastSpeaker, overlapped, gem, auditor, evaluation, runs, stream>>

\* Step 3: mediator guidance at round 3; without a directive the turn ends here
AiMediator(w, llm_ok) ==
  /\ workers[w].pc = "ai_mediator"
  /\ Len(messages) < MaxMsgs
  /\ messages' = Append(messages, InjectMediatorGuidance(llm_ok))
  /\ IF ~workers[w].msg
       THEN /\ ev' = [Return("run_negotiation_turn", w) EXCEPT
                        !.current_round = Some(3), !.game_state = "active",
                        !.mediator_only = TRUE]
            /\ workers' = [workers EXCEPT ![w] = IdleWorker]
       ELSE /\ ev' = NoEv
            /\ workers' = [workers EXCEPT ![w].pc = "ai_plaintiff"]
  /\ UNCHANGED <<case, notes, lastSpeaker, overlapped, gem, auditor, evaluation, runs, stream>>

\* Steps 4-5: legal retrieval, the 240 s check, the plaintiff response
\* (every generation failure is replaced by a fallback text), its save
AiPlaintiff(w, elapsed) ==
  /\ workers[w].pc = "ai_plaintiff"
  /\ IF elapsed
       THEN /\ AiError(w)
            /\ UNCHANGED messages
       ELSE /\ Len(messages) < MaxMsgs
            /\ messages' = Append(messages, Msg("plaintiff", R(Val(workers[w].round))))
            /\ workers' = [workers EXCEPT ![w].pc = "ai_defendant"]
            /\ ev' = NoEv
  /\ UNCHANGED <<case, notes, lastSpeaker, overlapped, gem, auditor, evaluation, runs, stream>>

\* game_eval after Step 6 for each way the defendant text was obtained
DefendantEval(llm, counter_offer_rm, floor_price) ==
  IF llm = "json"
    THEN evaluate_game_state(counter_offer_rm, FloorOrZero(floor_price), 1, MAX_ROUNDS)
  ELSE IF llm = "timeout"
    THEN evaluate_game_state(NoOffer, FloorOrZero(floor_price), 1, MAX_ROUNDS)
  ELSE NoGameEval

\* Steps 6-10: the 240 s check, the defendant response, its save and audit,
\* the game state, the last 240 s check (late), the result
AiDefendant(w, elapsed, llm, counter_offer_rm, audit, late) ==
  /\ workers[w].pc = "ai_defendant"
  /\ IF elapsed
       THEN /\ AiError(w)
            /\ UNCHANGED <<messages, case>>
       ELSE LET derived_round == Val(workers[w].round)
                game_eval == DefendantEval(llm, counter_offer_rm, workers[w].floor)
                game_state == AiGameState(game_eval.meets_floor, derived_round)
            IN
            /\ Len(messages) < MaxMsgs
            /\ messages' = Append(messages, Msg("defendant", R(derived_round)))
            /\ case' = IF game_eval.meets_floor
                         THEN [case EXCEPT !.game_state = "pending_accept",
                                           !.pendingDecisionRole = "plaintiff"]
                         ELSE case
            /\ IF late
                 THEN AiError(w)
                 ELSE /\ ev' = [Return("run_negotiation_turn", w) EXCEPT
                                  !.current_round = Some(AiResultRound(derived_round, DEFAULT_CURRENT_ROUND)),
                                  !.game_state = game_state,
                                  !.raw = counter_offer_rm,
                                  !.auditor_passed = audit,
                                  !.generations = DefendantGenerations(audit)]
                      /\ workers' = [workers EXCEPT ![w] = IdleWorker]
  /\ UNCHANGED <<notes, lastSpeaker, overlapped, gem, auditor, evaluation, runs, stream>>


\* ----------------------------------- orchestrator.py: run_pvp_negotiation_turn
\* case_data.get("pvpRound", 1)
PvpRoundOf(c) == IF c.pvpRound = NoInt THEN 1 ELSE Val(c.pvpRound)

OppositeRole(role) == IF role = "plaintiff" THEN "defendant" ELSE "plaintiff"

\* Step 7: who speaks next
PvpNextTurn(user_role) == IF user_role = "plaintiff" THEN "defendant" ELSE "plaintiff"

\* Step 7: the round after this turn, before the MAX_ROUNDS cap of Step 9
PvpNextRound(user_role, pvp_round) ==
  IF user_role = "plaintiff" THEN pvp_round ELSE pvp_round + 1

\* int(case_data_dict.get("defendantCeilingPrice") or 0): case_data_dict is
\* built in Step 4 without that key
DefendantCeiling == 0

\* Step 9: game_state; within_ceiling is counter_offer <= defendant_ceiling
PvpGameState(user_role, meets_floor, within_ceiling, next_round) ==
  LET after_floor ==
        IF user_role = "defendant" /\ meets_floor THEN "pending_accept" ELSE "active"
      after_ceiling ==
        IF user_role = "plaintiff" /\ after_floor = "active"
           /\ DefendantCeiling > 0 /\ within_ceiling
          THEN "pending_accept" ELSE after_floor
  IN IF next_round > MAX_ROUNDS /\ after_ceiling # "pending_accept"
       THEN "pending_decision" ELSE after_ceiling

\* Step 9: next_round after the cap
PvpStoredRound(game_state, next_round) ==
  IF next_round > MAX_ROUNDS /\ game_state = "pending_decision" THEN MAX_ROUNDS ELSE next_round

\* Step 9: case_status
PvpCaseStatus(game_state) ==
  IF game_state = "settled" THEN "done"
  ELSE IF game_state = "pending_decision" THEN "pending_decision"
  ELSE IF game_state = "pending_accept" THEN "pending_accept"
  ELSE "active"

\* the except branch: the turn status is reset, the turn is not flipped
PvpError(w) ==
  /\ case' = [case EXCEPT !.turnStatus = "waiting"]
  /\ ev' = [Return("run_pvp_negotiation_turn", w) EXCEPT
              !.current_round = workers[w].round,
              !.game_state = "error", !.auditor_passed = FALSE]
  /\ workers' = [workers EXCEPT ![w] = IdleWorker]

\* Steps 1-3: read the case and the history, save the directive, mark processing
PvpStart(w) ==
  /\ workers[w].pc = "pvp_start"
  /\ IF workers[w].msg THEN AddNote("directive") ELSE UNCHANGED notes
  /\ case' = [case EXCEPT !.turnStatus = "processing"]
  /\ workers' = [workers EXCEPT ![w] =
        [@ EXCEPT !.round = Some(PvpRoundOf(case)),
                  !.med = MediatorAlreadyInjected(messages),
                  !.pc = "pvp_generate"]]
  /\ ev' = NoEv
  /\ UNCHANGED <<messages, lastSpeaker, overlapped, gem, auditor, evaluation, runs, stream>>

\* game_eval after Step 5
PvpEval(user_role, llm, counter_offer_rm, floor_price) ==
  IF llm = "json" /\ user_role = "defendant"
    THEN evaluate_game_state(counter_offer_rm, FloorOrZero(floor_price), 1, MAX_ROUNDS)
    ELSE NoGameEval

\* Steps 4-6: retrieval, the 240 s check, the response of this role (a
\* generation error is re-raised), its save
PvpGenerate(w, elapsed, llm, counter_offer_rm) ==
  /\ workers[w].pc = "pvp_generate"
  /\ IF elapsed \/ llm = "error"
       THEN /\ PvpError(w)
            /\ UNCHANGED messages
       ELSE LET user_role == workers[w].role
                pvp_round == Val(workers[w].round)
            IN
            /\ Len(messages) < MaxMsgs
            /\ messages' = Append(messages, Msg(user_role, R(pvp_round)))
            /\ workers' = [workers EXCEPT ![w] =
                  [@ EXCEPT !.pc = "pvp_flip",
                            !.meets_floor =
                               PvpEval(user_role, llm, counter_offer_rm,
                                       workers[w].floor).meets_floor]]
            /\ ev' = NoEv
            /\ UNCHANGED case
  /\ UNCHANGED <<notes, lastSpeaker, overlapped, gem, auditor, evaluation, runs, stream>>

\* Steps 6-11: the audit, the mediator after the defendant's round 2, the
\* game state, the case update that flips the turn, the result
PvpFlip(w, audit, mediator_ok) ==
  /\ workers[w].pc = "pvp_flip"
  /\ LET user_role == workers[w].role
         pvp_round == Val(workers[w].round)
         next_round == PvpNextRound(user_role, pvp_round)
         inject == user_role = "defendant" /\ pvp_round = 2 /\ ~workers[w].med
         game_state == PvpGameState(user_role, workers[w].meets_floor, FALSE, next_round)
         pending == IF game_state = "pending_accept"
                      THEN OppositeRole(user_role)
                      ELSE case.pendingDecisionRole
     IN
     /\ inject => Len(messages) < MaxMsgs
     /\ messages' = IF inject
                      THEN Append(messages, InjectMediatorGuidance(mediator_ok))
                      ELSE messages
     /\ case' = [case EXCEPT !.currentTurn = PvpNextTurn(user_role),
                             !.turnStatus = "waiting",
                             !.pvpRound = Some(PvpStoredRound(game_state, next_round)),
                             !.status = PvpCaseStatus(game_state),
                             !.game_state = game_state,
                             !.pendingDecisionRole = pending]
     /\ ev' = [Return("run_pvp_negotiation_turn", w) EXCEPT
                 !.current_round = Some(pvp_round),
                 !.game_state = game_state,
                 !.auditor_passed = audit,
                 !.generations = 1]
     /\ lastSpeaker' = user_role
     /\ workers' = [workers EXCEPT ![w] = IdleWorker]
  /\ UNCHANGED <<notes, overlapped, gem, auditor, evaluation, runs, stream>>

\* -------------------------------------- orchestrator.py: call_gemini_with_retry
\* what one _call_gemini_once submitted to the pool ends as, seen from the loop:
\* its text, concurrent.futures.TimeoutError, an exception whose text holds
\* "429" or "RESOURCE_EXHAUSTED", any other exception
CallOutcomes == {"success", "timeout", "rate_limit", "other_error"}

\* _call_gemini_once: the generate_content requests one call issues.  With
\* file_parts the multipart request comes first, and when it fails with
\* "400" / "INVALID_ARGUMENT" (text_only_retry) the text-only request follows
RequestsOfCall(file_parts, text_only_retry) ==
  IF file_parts /\ text_only_retry THEN 2 ELSE 1

\* active_model != FALLBACK_MODEL; same_model: the environment names one model twice
ActiveIsFallback(g) == g.active_model = "fallback" \/ g.same_model

\* not fallback_used and active_model != FALLBACK_MODEL
CanSwitch(g) == ~g.fallback_used /\ ~ActiveIsFallback(g)

\* wait_time = (2 ** attempt) * 5
BackoffWait(attempt) == (2 ^ attempt) * 5

\* the model a call of this iteration is submitted with
ModelOf(g) == IF ActiveIsFallback(g) THEN "fallback" ELSE "primary"

\* pool.submit(_call_gemini_once, ...) and future.result(timeout=per_call_timeout)
Called(g, outcome, text_only_retry) ==
  [g EXCEPT !.outcomes = Append(@, outcome), !.models = Append(@, ModelOf(g)),
            !.requests = @ + RequestsOfCall(g.file_parts, text_only_retry)]

\* a "continue" that forgets the switch (a variant the fallback property must
\* tell apart from the code's switch)
SwitchNotRecorded(g) == [g EXCEPT !.attempt = @ + 1]

\* the switch to the fallback model, then "continue"
SwitchToFallback(g) ==
  [g EXCEPT !.fallback_used = TRUE, !.active_model = "fallback", !.attempt = @ + 1]

\* the loop is about to submit a call; a text-only retry needs file_parts
Looping(text_only_retry) ==
  /\ gem.pc = "loop" /\ gem.attempt < gem.max_retries
  /\ text_only_retry => gem.file_parts

\* return future.result(timeout=per_call_timeout)
GemSuccess(text_only_retry) ==
  /\ Looping(text_only_retry)
  /\ gem' = [Called(gem, "success", text_only_retry) EXCEPT
               !.pc = "returned", !.result = "text"]
  /\ UNCHANGED <<case, messages, notes, workers, ev, lastSpeaker, overlapped,
               auditor, evaluation, runs, stream>>

\* except concurrent.futures.TimeoutError
GemTimeout(text_only_retry) ==
  /\ Looping(text_only_retry)
  /\ gem' = IF CanSwitch(gem)
              THEN SwitchToFallback(Called(gem, "timeout", text_only_retry))
              ELSE [Called(gem, "timeout", text_only_retry) EXCEPT !.attempt = @ + 1]
  /\ UNCHANGED <<case, messages, notes, workers, ev, lastSpeaker, overlapped,
               auditor, evaluation, runs, stream>>

\* except Exception, rate limited: back off unless this is the switch
GemRateLimit(text_only_retry) ==
  /\ Looping(text_only_retry)
  /\ gem' = IF CanSwitch(gem)
              THEN SwitchToFallback(Called(gem, "rate_limit", text_only_retry))
              ELSE [Called(gem, "rate_limit", text_only_retry) EXCEPT
                      !.sleeps = Append(@, BackoffWait(gem.attempt)),
                      !.attempt = @ + 1]
  /\ UNCHANGED <<case, messages, notes, workers, ev, lastSpeaker, overlapped,
               auditor, evaluation, runs, stream>>

\* except Exception, anything else: re-raised unless this is the switch
GemOtherError(text_only_retry) ==
  /\ Looping(text_only_retry)
  /\ gem' = IF CanSwitch(gem)
              THEN SwitchToFallback(Called(gem, "other_error", text_only_retry))
              ELSE [Called(gem, "other_error", text_only_retry) EXCEPT
                      !.pc = "raised", !.result = "reraised"]
  /\ UNCHANGED <<case, messages, notes, workers, ev, lastSpeaker, overlapped,
               auditor, evaluation, runs, stream>>

\* a loop exit that returns without a response (a variant the retry property
\* must tell apart from the raise)
GemExhaustedReturns ==
  /\ gem.pc = "loop" /\ gem.attempt >= gem.max_retries
  /\ gem' = [gem EXCEPT !.pc = "returned", !.result = None]
  /\ UNCHANGED <<case, messages, notes, workers, ev, lastSpeaker, overlapped,
               auditor, evaluation, runs, stream>>

\* the raise after the for loop
GemExhausted ==
  /\ gem.pc = "loop" /\ gem.attempt >= gem.max_retries
  /\ gem' = [gem EXCEPT !.pc = "raised", !.result = "exhausted"]
  /\ UNCHANGED <<case, messages, notes, workers, ev, lastSpeaker, overlapped,
               auditor, evaluation, runs, stream>>

GemNext ==
  \/ \E text_only_retry \in BOOLEAN : GemSuccess(text_only_retry)
  \/ \E text_only_retry \in BOOLEAN : GemTimeout(text_only_retry)
  \/ \E text_only_retry \in BOOLEAN : GemRateLimit(text_only_retry)
  \/ \E text_only_retry \in BOOLEAN : GemOtherError(text_only_retry)
  \/ GemExhausted

\* one invocation, for every max_retries, with and without file_parts, and
\* both model configurations
GemInit ==
  /\ case = NewCase("ai")
  /\ messages = <<>>
  /\ notes = NoNotes
  /\ workers = [w \in Workers |-> IdleWorker]
  /\ ev = NoEv
  /\ lastSpeaker = None
  /\ overlapped = FALSE
  /\ auditor = AuditorIdle
  /\ evaluation = EvaluationIdle
  /\ runs = RunsIdle
  /\ stream = StreamIdle
  /\ \E n \in 0..MaxRetriesArg, same \in BOOLEAN, files \in BOOLEAN :
       gem = [GemIdle EXCEPT !.pc = "loop", !.max_retries = n, !.same_model = same,
                             !.file_parts = files]

\* the loop is sequential code and every call ends (by its result or its timeout)
GemSpec == GemInit /\ [][GemNext]_vars /\ WF_vars(GemNext)

\* ------------------------------------------------------------ the servers
\* ----------------------------------- neurosymbolic.py: evaluate_game_state
\* floor_price arguments: "floor_price or 0" of the callers, and a positive floor
EvalFloors == {0, 20}

\* one call evaluate_game_state({"counter_offer_rm": v}, floor_price, current_round, max_rounds)
EvalInit ==
  /\ case = NewCase("ai")
  /\ messages = <<>>
  /\ notes = NoNotes
  /\ workers = [w \in Workers |-> IdleWorker]
  /\ ev = NoEv
  /\ lastSpeaker = None
  /\ overlapped = FALSE
  /\ gem = GemIdle
  /\ auditor = AuditorIdle
  /\ runs = RunsIdle
  /\ stream = StreamIdle
  /\ \E v \in OfferValues, f \in EvalFloors, r \in 1..MaxRoundArg, m \in 1..MaxRoundArg :
       evaluation = [ pc |-> "called", counter_offer_rm |-> v, floor_price |-> f,
                      current_round |-> r, max_rounds |-> m, result |-> NoGameEval ]

EvalReturn ==
  /\ evaluation.pc = "called"
  /\ evaluation' = [evaluation EXCEPT
                      !.pc = "returned",
                      !.result = evaluate_game_state(evaluation.counter_offer_rm,
                                                     evaluation.floor_price,
                                                     evaluation.current_round,
                                                     evaluation.max_rounds)]
  /\ UNCHANGED <<case, messages, notes, workers, ev, lastSpeaker, overlapped, gem,
                 auditor, runs, stream>>

EvalNext == EvalReturn

EvalSpec == EvalInit /\ [][EvalNext]_vars

\* -------------------------------------------------------------- auditor.py
\* Strings are tuples of symbols: a digit, a blank, or a word (a law title is
\* one word).  Scores are in hundredths.
MIN_SCORE == 23

\* str.lower()
Lower(t) ==
  CASE t = "Order" -> "order"
    [] t = "Limitation Act 1953" -> "limitation act 1953"
    [] t = "Rules of Court 2012" -> "rules of court 2012"
    [] OTHER -> t

LowerAll(s) == [i \in 1..Len(s) |-> Lower(s[i])]

\* re.sub(r"\s+", " ", ...)
RECURSIVE CollapseBlanks(_)
CollapseBlanks(s) ==
  IF Len(s) < 2 THEN s
  ELSE IF s[1] = " " /\ s[2] = " " THEN CollapseBlanks(Tail(s))
       ELSE <<s[1]>> \o CollapseBlanks(Tail(s))

\* _normalize
normalize(text) == Strip(CollapseBlanks(LowerAll(text)))

\* Python's "sub in s"
Contains(sub, s) ==
  \E i \in 0..(Len(s) - Len(sub)) : SubSeq(s, i + 1, i + Len(sub)) = sub

\* _canonical_law_title: a leading "under " and every "the " are removed
RECURSIVE RemoveThe(_)
RemoveThe(s) ==
  IF s = <<>> THEN <<>>
  ELSE IF Len(s) >= 2 /\ Lower(s[1]) = "the" /\ s[2] = " " THEN RemoveThe(Tail(Tail(s)))
       ELSE <<s[1]>> \o RemoveThe(Tail(s))

canonical_law_title(raw_law) ==
  LET cleaned == Strip(CollapseBlanks(raw_law))
      unprefixed == IF Len(cleaned) >= 2 /\ Lower(cleaned[1]) = "under" /\ cleaned[2] = " "
                      THEN Strip(Tail(Tail(cleaned))) ELSE cleaned
  IN Strip(RemoveThe(unprefixed))

\* An agent text, as the passages the three patterns of
\* extract_citations_with_regex match in it, in text order ("plain" matches none):
\* "<law> section <n>", "section <n> of <law>", "Order <law> rule <n>".
Passages ==
  { [form |-> "plain",            law |-> <<>>,                      section |-> <<>>],
    [form |-> "act_then_section", law |-> <<"Limitation Act 1953">>, section |-> <<"1", "0">>],
    [form |-> "section_of_act",   law |-> <<"the", " ", "limitation act 1953">>,
                                                                     section |-> <<"1", "0">>],
    [form |-> "act_then_section", law |-> <<"Limitation Act 1953">>, section |-> <<"1">>],
    [form |-> "order_rule",       law |-> <<"9", "3">>,              section |-> <<"6">>],
    [form |-> "order_rule",       law |-> <<"1", "4">>,              section |-> <<"6">>] }

AgentTexts == UNION {[1..n -> Passages] : n \in 0..MaxPassages}

\* match.group(0) of a passage
RawOf(p) ==
  CASE p.form = "act_then_section" -> p.law \o <<" ", "section", " ">> \o p.section
    [] p.form = "section_of_act"   -> <<"section", " ">> \o p.section \o <<" ", "of", " ">> \o p.law
    [] p.form = "order_rule"       -> <<"Order", " ">> \o p.law \o <<" ", "rule", " ">> \o p.section
    [] OTHER -> <<>>

\* the citation appended for a match
CitationOf(p) ==
  IF p.form = "order_rule"
    THEN [raw |-> RawOf(p), type |-> "order_rule",
          law |-> <<"Order", " ">> \o p.law, section |-> p.section]
    ELSE [raw |-> RawOf(p), type |-> "act_section",
          law |-> canonical_law_title(p.law), section |-> p.section]

\* the key kept in seen
KeyOf(c) ==
  IF c.type = "order_rule"
    THEN <<SubSeq(c.law, 3, Len(c.law)), c.section, "order">>
    ELSE <<LowerAll(c.law), LowerAll(c.section), "act">>

\* one finditer loop: the matches of one pattern, in text order, skipping seen keys
RECURSIVE ExtractForm(_, _, _, _)
ExtractForm(agent_text, form, citations, i) ==
  IF i > Len(agent_text) THEN citations
  ELSE LET c == CitationOf(agent_text[i]) IN
       IF /\ agent_text[i].form = form
          /\ \A j \in 1..Len(citations) : KeyOf(citations[j]) # KeyOf(c)
         THEN ExtractForm(agent_text, form, Append(citations, c), i + 1)
         ELSE ExtractForm(agent_text, form, citations, i + 1)

extract_citations_with_regex(agent_text) ==
  ExtractForm(agent_text, "order_rule",
    ExtractForm(agent_text, "section_of_act",
      ExtractForm(agent_text, "act_then_section", <<>>, 1), 1), 1)

\* metadata of index records
Metadata ==
  { [source |-> <<"Limitation Act 1953">>, section |-> <<"1", "0">>, text |-> <<>>],
    [source |-> <<>>, section |-> <<>>,
     text |-> <<"Limitation Act 1953", " ", "section", " ", "1", "0">>],
    [source |-> <<"Rules of Court 2012", " ", "Order", " ", "9", "3">>,
     section |-> <<"6">>, text |-> <<>>],
    [source |-> <<>>, section |-> <<>>,
     text |-> <<"Order", " ", "9", "3", " ", "r.", " ", "6">>] }

\* results["matches"]: records with a score just below or at MIN_SCORE
Matches ==
  UNION {[1..n -> [score : {MIN_SCORE - 1, MIN_SCORE}, metadata : Metadata]] :
           n \in 0..MaxMatches}

match_citation_against_record(citation, match) ==
  LET source == normalize(match.metadata.source)
      section == normalize(match.metadata.section)
      text == normalize(match.metadata.text)
      citation_law == normalize(citation.law)
      citation_section == normalize(citation.section)
      order_93 == <<"order", " ", "9", "3">>
  IN
  IF match.score < MIN_SCORE THEN FALSE
  ELSE IF citation.type = "order_rule"
    THEN IF Contains(order_93, source) /\ section = citation_section
           THEN TRUE
           ELSE /\ Contains(order_93, text)
                /\ \/ Contains(<<"rule", " ">> \o citation_section, text)
                   \/ Contains(<<"r.", " ">> \o citation_section, text)
    ELSE \/ Contains(citation_law, source) /\ section = citation_section
         \/ /\ Contains(citation_law, text)
            /\ \/ Contains(<<"section", " ">> \o citation_section, text)
               \/ Contains(<<"sec", " ">> \o citation_section, text)
               \/ Contains(<<"s.">> \o citation_section, text)
               \/ Contains(<<"s", " ">> \o citation_section, text)

\* check_rag_for_law: keys is "both API keys are set", raised "the embedding
\* or the index query raised", matches what the query returned
check_rag_for_law(citation, keys, raised, matches) ==
  /\ keys
  /\ ~raised
  /\ \E i \in 1..Len(matches) : match_citation_against_record(citation, matches[i])

NoFlag == <<>>

NoCheck == [citation |-> None, raised |-> FALSE, matches |-> <<>>, result |-> FALSE]

NoVerdict ==
  [is_valid |-> FALSE, flagged_law |-> NoFlag, citations_found |-> <<>>,
   auditor_warning |-> FALSE]

\* the flagged text: citation.get("raw") or "<law> s.<section>"
FlaggedLawSection(citation) == citation.law \o <<" ", "s.">> \o citation.section

FlaggedRaw(citation) ==
  IF citation.raw # <<>> THEN citation.raw ELSE FlaggedLawSection(citation)

\* one call validate_turn(agent_text)
AuditInit ==
  /\ case = NewCase("ai")
  /\ messages = <<>>
  /\ notes = NoNotes
  /\ workers = [w \in Workers |-> IdleWorker]
  /\ ev = NoEv
  /\ lastSpeaker = None
  /\ overlapped = FALSE
  /\ gem = GemIdle
  /\ evaluation = EvaluationIdle
  /\ runs = RunsIdle
  /\ stream = StreamIdle
  /\ \E t \in AgentTexts, k \in BOOLEAN :
       auditor = [ pc |-> "called", agent_text |-> t, keys |-> k,
                   citations_found |-> <<>>, confirmed |-> <<>>,
                   check |-> NoCheck, result |-> NoVerdict ]

AuditUnchanged ==
  UNCHANGED <<case, messages, notes, workers, ev, lastSpeaker, overlapped, gem,
              evaluation, runs, stream>>

\* citations_found = extract_citations_with_regex(agent_text), and the return
\* for a text without citation
AuditExtract ==
  /\ auditor.pc = "called"
  /\ LET citations_found == extract_citations_with_regex(auditor.agent_text) IN
     auditor' = IF citations_found = <<>>
                  THEN [auditor EXCEPT !.pc = "returned",
                                       !.result = [NoVerdict EXCEPT !.is_valid = TRUE]]
                  ELSE [auditor EXCEPT !.pc = "checking",
                                       !.citations_found = citations_found]
  /\ AuditUnchanged

\* one iteration of the loop over citations_found, and the return after the
\* last one
AuditCheck(raised, matches) ==
  /\ auditor.pc = "checking"
  /\ ~auditor.keys => (~raised /\ matches = <<>>)
  /\ raised => matches = <<>>
  /\ LET citation == auditor.citations_found[Len(auditor.confirmed) + 1]
         found == check_rag_for_law(citation, auditor.keys, raised, matches)
         checked == [auditor EXCEPT
                       !.confirmed = Append(@, found),
                       !.check = [citation |-> citation, raised |-> raised,
                                  matches |-> matches, result |-> found]]
     IN
     auditor' =
       IF ~found
         THEN [checked EXCEPT
                 !.pc = "returned",
                 !.result = [is_valid |-> FALSE,
                             flagged_law |-> Some(FlaggedRaw(citation)),
                             citations_found |-> auditor.citations_found,
                             auditor_warning |-> TRUE]]
       ELSE IF Len(checked.confirmed) = Len(auditor.citations_found)
         THEN [checked EXCEPT
                 !.pc = "returned",
                 !.result = [is_valid |-> TRUE, flagged_law |-> NoFlag,
                             citations_found |-> auditor.citations_found,
                             auditor_warning |-> FALSE]]
       ELSE checked
  /\ AuditUnchanged

AuditNext ==
  \/ AuditExtract
  \/ \E raised \in BOOLEAN, matches \in Matches : AuditCheck(raised, matches)

AuditSpec == AuditInit /\ [][AuditNext]_vars

\* ------------------------- main.py: start_case_run; orchestrator.py: run_case
\* A case that exists, run requests with mode "mvp" for it, and the run_case
\* threads (run_dumb_loop) they start.  Every Firestore call and every model
\* call of a thread either returns or raises.
RunThreads == 1..MaxRuns

StatusWrite(status) == [kind |-> "status", value |-> status, round |-> 0]

MessageWrite(role, round) == [kind |-> "message", value |-> role, round |-> round]

\* a thread not started: where it is in run_dumb_loop, and what it has written
IdleRun == [pc |-> "idle", writes |-> <<>>]

NoResponse == Http(0, None)

RunInit ==
  /\ case = NewCase("ai")
  /\ messages = <<>>
  /\ notes = NoNotes
  /\ workers = [w \in Workers |-> IdleWorker]
  /\ ev = NoEv
  /\ lastSpeaker = None
  /\ overlapped = FALSE
  /\ gem = GemIdle
  /\ auditor = AuditorIdle
  /\ evaluation = EvaluationIdle
  /\ stream = StreamIdle
  /\ runs = [threads |-> [t \in RunThreads |-> IdleRun], response |-> NoResponse]

RunUnchanged ==
  UNCHANGED <<notes, workers, ev, lastSpeaker, overlapped, gem, auditor, evaluation, stream>>

RunActive(t) == runs.threads[t].pc \notin {"idle", "returned", "raised"}

\* start_case_run: 400 while the case document says "running", else a new
\* thread and 202
start_case_run ==
  /\ \E t \in RunThreads : runs.threads[t].pc = "idle"
  /\ LET current_status == case.status
         t == CHOOSE x \in RunThreads :
                /\ runs.threads[x].pc = "idle"
                /\ \A y \in RunThreads : runs.threads[y].pc = "idle" => x <= y
     IN
     runs' = IF current_status = "running"
               THEN [runs EXCEPT !.response = Http(400, "already_running")]
               ELSE [runs EXCEPT !.response = Http(202, "running"),
                                 !.threads[t].pc = "get_db"]
  /\ UNCHANGED <<case, messages>>
  /\ RunUnchanged

\* a step of the try block that writes nothing; raising leads to the handler
RunStep(t, from, to, ok) ==
  /\ runs.threads[t].pc = from
  /\ runs' = [runs EXCEPT !.threads[t].pc = IF ok THEN to ELSE "except"]

\* db = get_db() and the two references, before the try block: when
\* firestore.client() raises the exception leaves run_dumb_loop
RunGetDb(t, ok) ==
  /\ runs.threads[t].pc = "get_db"
  /\ runs' = [runs EXCEPT !.threads[t].pc = IF ok THEN "update_running" ELSE "raised"]
  /\ UNCHANGED <<case, messages>>
  /\ RunUnchanged

\* case_ref.update({"status": "running"})
RunUpdateRunning(t, ok) ==
  /\ runs.threads[t].pc = "update_running"
  /\ IF ok
       THEN /\ case' = [case EXCEPT !.status = "running"]
            /\ runs' = [runs EXCEPT !.threads[t].pc = "read_case",
                                    !.threads[t].writes = Append(@, StatusWrite("running"))]
       ELSE /\ runs' = [runs EXCEPT !.threads[t].pc = "except"]
            /\ UNCHANGED case
  /\ UNCHANGED messages
  /\ RunUnchanged

\* case_ref.get() and the evidence stream
RunReadCase(t, ok) ==
  /\ RunStep(t, "read_case", "plaintiff", ok)
  /\ UNCHANGED <<case, messages>>
  /\ RunUnchanged

\* retrieve_law, the prompt, call_gemini_with_retry and messages_ref.add of
\* one turn of round 1
RunTurn(t, role, to, ok) ==
  /\ runs.threads[t].pc = role
  /\ IF ok
       THEN /\ messages' = Append(messages, Msg(role, R(1)))
            /\ runs' = [runs EXCEPT !.threads[t].pc = to,
                                    !.threads[t].writes = Append(@, MessageWrite(role, 1))]
       ELSE /\ runs' = [runs EXCEPT !.threads[t].pc = "except"]
            /\ UNCHANGED messages
  /\ UNCHANGED case
  /\ RunUnchanged

RunPlaintiff(t, ok) == RunTurn(t, "plaintiff", "defendant", ok)

RunDefendant(t, ok) == RunTurn(t, "defendant", "update_done", ok)

\* case_ref.update({"status": "done"}) and the return
RunUpdateDone(t, ok) ==
  /\ runs.threads[t].pc = "update_done"
  /\ IF ok
       THEN /\ case' = [case EXCEPT !.status = "done"]
            /\ runs' = [runs EXCEPT !.threads[t].pc = "returned",
                                    !.threads[t].writes = Append(@, StatusWrite("done"))]
       ELSE /\ runs' = [runs EXCEPT !.threads[t].pc = "except"]
            /\ UNCHANGED case
  /\ UNCHANGED messages
  /\ RunUnchanged

\* except Exception: case_ref.update({"status": "error"}); when it raises the
\* exception leaves run_dumb_loop
RunExceptStatus(t, ok) ==
  /\ runs.threads[t].pc = "except"
  /\ IF ok
       THEN /\ case' = [case EXCEPT !.status = "error"]
            /\ runs' = [runs EXCEPT !.threads[t].pc = "except_message",
                                    !.threads[t].writes = Append(@, StatusWrite("error"))]
       ELSE /\ runs' = [runs EXCEPT !.threads[t].pc = "raised"]
            /\ UNCHANGED case
  /\ UNCHANGED messages
  /\ RunUnchanged

\* except Exception: messages_ref.add of the system message and the return
RunExceptMessage(t, ok) ==
  /\ runs.threads[t].pc = "except_message"
  /\ IF ok
       THEN /\ messages' = Append(messages, Msg("system", R(0)))
            /\ runs' = [runs EXCEPT !.threads[t].pc = "returned",
                                    !.threads[t].writes = Append(@, MessageWrite("system", 0))]
       ELSE /\ runs' = [runs EXCEPT !.threads[t].pc = "raised"]
            /\ UNCHANGED messages
  /\ UNCHANGED case
  /\ RunUnchanged

\* the steps of the run_case threads
run_dumb_loop ==
  \/ \E t \in RunThreads, ok \in BOOLEAN : RunGetDb(t, ok)
  \/ \E t \in RunThreads, ok \in BOOLEAN : RunUpdateRunning(t, ok)
  \/ \E t \in RunThreads, ok \in BOOLEAN : RunReadCase(t, ok)
  \/ \E t \in RunThreads, ok \in BOOLEAN : RunPlaintiff(t, ok)
  \/ \E t \in RunThreads, ok \in BOOLEAN : RunDefendant(t, ok)
  \/ \E t \in RunThreads, ok \in BOOLEAN : RunUpdateDone(t, ok)
  \/ \E t \in RunThreads, ok \in BOOLEAN : RunExceptStatus(t, ok)
  \/ \E t \in RunThreads, ok \in BOOLEAN : RunExceptMessage(t, ok)

RunNext ==
  \/ start_case_run
  \/ run_dumb_loop

\* a started thread runs to its end: its code is sequential and each of its
\* calls returns or raises
RunSpec == RunInit /\ [][RunNext]_vars /\ WF_vars(run_dumb_loop)

\* ------------------------- main.py: the NDJSON stream of next_turn and pvp_turn
\* One request that passed validation: the thread run_in_thread, the pool
\* threads its turn function left behind, progress_queue, the two holders, the
\* clock and event_generator.
Sentinel == None

Record(type, data) == [type |-> type, data |-> data]

\* what run_negotiation_turn / run_pvp_negotiation_turn return (a non-empty
\* dict, named by its game_state), and str(e) of what they raise
WorkerReturns == {"active", "pending_decision"}

WorkerErrors == {"", "exception"}

\* truth value of a holder: None and "" are false
Truthy(x) == x \notin {None, ""}

\* the record TerminalOf gives when the result holder is looked at first
TerminalResultFirst(error_holder, result_holder) ==
  IF Truthy(result_holder) THEN Record("result", result_holder)
  ELSE IF Truthy(error_holder) THEN Record("error", error_holder)
  ELSE Record("error", "No result returned")

\* "Send final result or error"
TerminalOf(error_holder, result_holder) ==
  IF Truthy(error_holder) THEN Record("error", error_holder)
  ELSE IF Truthy(result_holder) THEN Record("result", result_holder)
  ELSE Record("error", "No result returned")

StreamInit ==
  /\ case = NewCase("ai")
  /\ messages = <<>>
  /\ notes = NoNotes
  /\ workers = [w \in Workers |-> IdleWorker]
  /\ ev = NoEv
  /\ lastSpeaker = None
  /\ overlapped = FALSE
  /\ gem = GemIdle
  /\ auditor = AuditorIdle
  /\ evaluation = EvaluationIdle
  /\ runs = RunsIdle
  /\ \E op \in {"next_turn", "pvp_turn"} :
       stream = [ op            |-> op,
                  thread        |-> "running",  \* run_in_thread: running, finally, ended
                  returned      |-> None,       \* what the turn function returned
                  raised        |-> FALSE,      \* the turn function raised
                  result_holder |-> None,
                  error_holder  |-> None,
                  progress_queue |-> <<>>,
                  puts          |-> 0,          \* progress_callback calls so far
                  timed_out     |-> FALSE,      \* elapsed > hard_timeout_sec
                  fired         |-> FALSE,      \* the hard timeout branch was taken
                  generator     |-> "top",      \* top, get, empty, final, ended
                  heartbeats    |-> 0,
                  emitted       |-> <<>> ]      \* the records yielded so far

StreamUnchanged ==
  UNCHANGED <<case, messages, notes, workers, ev, lastSpeaker, overlapped, gem,
              auditor, evaluation, runs>>

\* thread.is_alive()
IsAlive(s) == s.thread # "ended"

\* progress_callback called by the turn function
ThreadProgress ==
  /\ stream.thread = "running" /\ stream.puts < MaxProgress
  /\ stream' = [stream EXCEPT !.progress_queue = Append(@, "progress"), !.puts = @ + 1]
  /\ StreamUnchanged

\* progress_callback called by call_gemini_with_retry in a pool thread the
\* turn function stopped waiting for
PoolProgress ==
  /\ stream.thread # "running" /\ stream.puts < MaxProgress
  /\ stream' = [stream EXCEPT !.progress_queue = Append(@, "progress"), !.puts = @ + 1]
  /\ StreamUnchanged

\* result_holder[0] = result
ThreadReturn(result) ==
  /\ stream.thread = "running"
  /\ stream' = [stream EXCEPT !.thread = "finally", !.returned = result,
                              !.result_holder = result]
  /\ StreamUnchanged

\* except Exception as e: error_holder[0] = str(e)
ThreadRaise(message) ==
  /\ stream.thread = "running"
  /\ stream' = [stream EXCEPT !.thread = "finally", !.raised = TRUE,
                              !.error_holder = message]
  /\ StreamUnchanged

\* finally: progress_queue.put(None), and the thread ends
ThreadFinally ==
  /\ stream.thread = "finally"
  /\ stream' = [stream EXCEPT !.thread = "ended",
                              !.progress_queue = Append(@, Sentinel)]
  /\ StreamUnchanged

\* time.monotonic() - request_started_at passes hard_timeout_sec
ClockPassesHardTimeout ==
  /\ ~stream.timed_out
  /\ stream' = [stream EXCEPT !.timed_out = TRUE]
  /\ StreamUnchanged

\* top of the while loop: the hard timeout check
GeneratorTop ==
  /\ stream.generator = "top"
  /\ stream' = IF stream.timed_out /\ IsAlive(stream)
                 THEN [stream EXCEPT !.generator = "get", !.fired = TRUE,
                                     !.error_holder = "timed out",
                                     !.progress_queue = Append(@, Sentinel)]
                 ELSE [stream EXCEPT !.generator = "get"]
  /\ StreamUnchanged

\* progress_queue.get returned an item
GeneratorGet ==
  /\ stream.generator = "get" /\ stream.progress_queue # <<>>
  /\ LET item == Head(stream.progress_queue) IN
     stream' = IF item = Sentinel
                 THEN [stream EXCEPT !.generator = "final", !.progress_queue = Tail(@)]
                 ELSE [stream EXCEPT !.generator = "top", !.progress_queue = Tail(@),
                                     !.emitted = Append(@, Record("progress", "step"))]
  /\ StreamUnchanged

\* progress_queue.get raised queue.Empty after its 2 s
GeneratorEmpty ==
  /\ stream.generator = "get" /\ stream.progress_queue = <<>>
  /\ stream' = [stream EXCEPT !.generator = "empty"]
  /\ StreamUnchanged

\* except queue.Empty: a heartbeat when one is due, continue while the thread
\* is alive, else break
GeneratorAfterEmpty(due) ==
  /\ stream.generator = "empty"
  /\ due => (IsAlive(stream) /\ stream.heartbeats < MaxHeartbeats)
  /\ stream' = IF ~IsAlive(stream) THEN [stream EXCEPT !.generator = "final"]
               ELSE IF due
                 THEN [stream EXCEPT !.generator = "top", !.heartbeats = @ + 1,
                                     !.emitted = Append(@, Record("progress", "heartbeat"))]
                 ELSE [stream EXCEPT !.generator = "top"]
  /\ StreamUnchanged

\* after the loop: the final record
GeneratorFinal ==
  /\ stream.generator = "final"
  /\ stream' = [stream EXCEPT
                  !.generator = "ended",
                  !.emitted = Append(@, TerminalOf(stream.error_holder, stream.result_holder))]
  /\ StreamUnchanged

event_generator ==
  \/ GeneratorTop
  \/ GeneratorGet
  \/ GeneratorEmpty
  \/ \E due \in BOOLEAN : GeneratorAfterEmpty(due)
  \/ GeneratorFinal

run_in_thread ==
  \/ ThreadProgress
  \/ \E result \in WorkerReturns : ThreadReturn(result)
  \/ \E message \in WorkerErrors : ThreadRaise(message)
  \/ ThreadFinally

StreamNext ==
  \/ run_in_thread
  \/ PoolProgress
  \/ ClockPassesHardTimeout
  \/ event_generator

\* the response is read to its end and time passes; the turn function may
\* take arbitrarily long
StreamSpec ==
  StreamInit /\ [][StreamNext]_vars /\ WF_vars(event_generator) /\ WF_vars(ClockPassesHardTimeout)

\* a case in AI mode: next-turn requests, the decision endpoints, the turn threads
Next ==
  \/ \E m \in BOOLEAN, f \in FloorValues : next_turn(m, f)
  \/ \E settled \in BOOLEAN : accept_final_offer(settled)
  \/ reject_final_offer
  \/ continue_negotiation
  \/ \E w \in Workers : AiStart(w)
  \/ \E w \in Workers, ok \in BOOLEAN : AiMediator(w, ok)
  \/ \E w \in Workers, elapsed \in BOOLEAN : AiPlaintiff(w, elapsed)
  \/ \E w \in Workers, elapsed \in BOOLEAN, llm \in LlmOutcomes, late \in BOOLEAN :
       \E o \in OfferOutcomes(llm), audit \in AuditOutcomes(llm) :
         AiDefendant(w, elapsed, llm, o, audit, late)

Spec == Init /\ [][Next]_vars

\* a case in PvP mode: join, pvp-turn requests, the decision endpoints, the turn threads
PvpNext ==
  \/ \E r \in Roles, u \in Users \cup {None}, m \in BOOLEAN, f \in FloorValues :
       pvp_turn(r, u, m, f)
  \/ \E u \in Users : join_case(u)
  \/ \E settled \in BOOLEAN : accept_final_offer(settled)
  \/ reject_final_offer
  \/ continue_negotiation
  \/ \E w \in Workers : PvpStart(w)
  \/ \E w \in Workers, elapsed \in BOOLEAN, llm \in LlmOutcomes :
       \E o \in OfferOutcomes(llm) : PvpGenerate(w, elapsed, llm, o)
  \/ \E w \in Workers, audit \in BOOLEAN, ok \in BOOLEAN : PvpFlip(w, audit, ok)

PvpSpec == PvpInit /\ [][PvpNext]_vars

\* ------------------------------------------------------------ properties
PvpReturned ==
  ev.type = "return" /\ ev.op = "run_pvp_negotiation_turn" /\ ev.game_state # "error"

PvpRequested == ev.type = "request" /\ ev.op = "pvp_turn"

\* C1: over the turns of a PvP case that complete without error the speaking
\* roles alternate: a completed turn is never by the role of the completed
\* turn before it.
C1_RolesAlternate ==
  (PvpReturned /\ ev.prev_speaker # None) => ev.role # ev.prev_speaker

\* C1, the case update of one turn: a turn of role R that read pvpRound
\* r < MAX_ROUNDS and completed without error leaves currentTurn at the other
\* role, turnStatus "waiting", and pvpRound r (plaintiff) or r + 1 (defendant).
C1_TurnFlipped ==
  (PvpReturned /\ Val(ev.round) < MAX_ROUNDS) =>
    /\ case.currentTurn = OppositeRole(ev.role)
    /\ case.turnStatus = "waiting"
    /\ case.pvpRound = Some(IF ev.role = "plaintiff" THEN Val(ev.round)
                                                     ELSE Val(ev.round) + 1)

\* C2: a pvp-turn request whose user_role is not the case's currentTurn is
\* answered 400, starts no turn thread, and leaves the case document and the
\* messages as they were.
C2_WrongRoleRejected ==
  [][\A r \in Roles, u \in Users \cup {None}, m \in BOOLEAN, f \in FloorValues :
       (r # CurrentTurn(case) /\ pvp_turn(r, u, m, f)) =>
         /\ ev'.code = 400
         /\ UNCHANGED <<case, messages, notes, workers>>]_vars

C2_Witness ==
  /\ PvpRequested /\ ev.code = 400 /\ ev.detail = "not_your_turn"
  /\ case.defendantUserId # None
  /\ ev.role = "plaintiff" /\ ev.uid = case.plaintiffUserId
  /\ case.currentTurn = "defendant"

\* the participant a role's userId has to name
ParticipantOf(c, role) == IF role = "plaintiff" THEN c.plaintiffUserId ELSE c.defendantUserId

\* C3: a pvp-turn request is processed (answered 200, its turn started) only
\* when its userId is the case's plaintiffUserId (for role plaintiff) or
\* defendantUserId (for role defendant).
C3_OnlyParticipantProcessed ==
  (PvpRequested /\ ev.code = 200) => ev.uid = ParticipantOf(case, ev.role)

DecisionPending(c) == c.status = "pending_decision" \/ c.game_state = "pending_decision"

\* C4 as stated: while the case's status or game_state is pending_decision
\* every pvp-turn request is answered 400.
C4_PendingAnswered400 ==
  (PvpRequested /\ DecisionPending(case)) => ev.code = 400

\* C4 amended: while the case's status or game_state is pending_decision a
\* pvp-turn request is answered 400, or 403 when it is for the role whose turn
\* it is and fails the participant check; either way it starts no turn thread
\* and writes nothing.
C4_PendingRejected ==
  [][\A r \in Roles, u \in Users \cup {None}, m \in BOOLEAN, f \in FloorValues :
       (DecisionPending(case) /\ pvp_turn(r, u, m, f)) =>
         /\ ev'.code \in {400, 403}
         /\ ev'.code = 403 <=> (r = CurrentTurn(case) /\ NotParticipant(case, r, u))
         /\ UNCHANGED <<case, messages, notes, workers>>]_vars

C4_Witness ==
  /\ PvpRequested /\ case.status = "pending_decision"
  /\ ev.code = 400 /\ ev.detail = "decision_pending"
  /\ ev.uid = ParticipantOf(case, ev.role)

\* C5: once accept-offer has stored a settlement, or reject-offer has stored
\* the deadlock, a next-turn or pvp-turn request is answered 400 "Case already
\* completed".
C5_FinalCaseBlocked ==
  (ev.type = "request" /\ ev.op \in {"next_turn", "pvp_turn"}
     /\ (case.settlement \/ case.status = "deadlock")) =>
    (ev.code = 400 /\ ev.detail = "case_already_completed")

AiReturned == ev.type = "return" /\ ev.op = "run_negotiation_turn"

\* a full plaintiff + defendant turn that returned its normal result
AiFullTurn == AiReturned /\ ev.game_state # "error" /\ ~ev.mediator_only

\* the counter-offer is a valid amount that is at least the floor price
ValidOfferMeetsFloor(counter_offer_rm, floor_price) ==
  /\ to_int_offer(counter_offer_rm) # NoInt
  /\ Val(to_int_offer(counter_offer_rm)) >= FloorOrZero(floor_price)

\* C6: a full turn of run_negotiation_turn returns game_state pending_accept
\* exactly when the defendant's counter-offer is a valid amount >= the floor
\* price, and then the case document holds game_state pending_accept and
\* pendingDecisionRole plaintiff; otherwise it returns pending_decision exactly
\* when the derived round is >= MAX_ROUNDS, and otherwise active.
C6_GameStateOfTurn ==
  AiFullTurn =>
    IF ValidOfferMeetsFloor(ev.raw, ev.floor)
      THEN /\ ev.game_state = "pending_accept"
           /\ case.game_state = "pending_accept"
           /\ case.pendingDecisionRole = "plaintiff"
      ELSE IF Val(ev.round) >= MAX_ROUNDS
        THEN ev.game_state = "pending_decision"
        ELSE ev.game_state = "active"

C6_Witness ==
  /\ AiFullTurn /\ ev.game_state = "pending_decision"
  /\ ev.raw.k = "float" /\ ev.floor = Some(20)

\* C7: in every result run_negotiation_turn returns, current_round is the
\* round derived from the stored messages.
C7_RoundAlwaysDerived == AiReturned => ev.current_round = ev.round

\* C8: while turns do not overlap, the messages hold at most one mediator
\* message, it is guidance of round 2.5 written after exactly two plaintiff
\* messages, and every round-3 plaintiff message comes after it.
C8_OneMediatorMessage ==
  ~overlapped =>
    /\ CountRole(messages, "mediator") <= 1
    /\ \A i \in 1..Len(messages) :
         messages[i].role = "mediator" =>
           /\ messages[i].round = MEDIATOR_ROUND /\ messages[i].is_guidance
           /\ CountRole(SubSeq(messages, 1, i), "plaintiff") = 2
    /\ \A j \in 1..Len(messages) :
         (messages[j].role = "plaintiff" /\ messages[j].round = R(3)) =>
           \E i \in 1..(j - 1) : messages[i].role = "mediator"

C8_Witness ==
  /\ ~overlapped
  /\ \E i \in 1..Len(messages) : messages[i].role = "mediator" /\ messages[i].fallback
  /\ CountRole(messages, "plaintiff") = MAX_ROUNDS
  /\ AiFullTurn

\* C9: a defendant response that fails the citation audit has been
\* regenerated at least once before the turn result is returned (and at most
\* MAX_AUDITOR_RETRIES times).
C9_FailedAuditRegenerated ==
  (AiFullTurn /\ ~ev.auditor_passed) =>
    (ev.generations >= 2 /\ ev.generations <= 1 + MAX_AUDITOR_RETRIES)

GemDone == gem.pc \in {"returned", "raised"}

Succeeded(outcomes) == {i \in 1..Len(outcomes) : outcomes[i] = "success"}

RateLimited(outcomes) == {i \in 1..Len(outcomes) : outcomes[i] = "rate_limit"}

\* C11: with the default max_retries = 2, every model call that fails with a
\* rate-limit error is followed by a wait of 5 * 2^attempt seconds (5 s after
\* the first call, 10 s after the second) and then by another model call.
C11_BackoffThenRetry ==
  (GemDone /\ gem.max_retries = 2) =>
    /\ \A i \in RateLimited(gem.outcomes) : i < Len(gem.outcomes)
    /\ Len(gem.sleeps) = Cardinality(RateLimited(gem.outcomes))
    /\ \A k \in 1..Len(gem.sleeps) : gem.sleeps[k] \in {5, 10}

OnFallback(g) == {i \in 1..Len(g.models) : g.models[i] = "fallback"}

\* C18: the calls of one invocation use the primary model at most for the
\* first call and the fallback model for every call after a failure; the
\* switch is made without a wait (only rate-limit failures of the fallback
\* model are waited for), and any other exception of the fallback model is
\* re-raised at once, ending the invocation.
C18_FallbackSwitchOnce ==
  /\ \A i \in 1..Len(gem.models) : gem.models[i] = "primary" => i = 1
  /\ \A i \in OnFallback(gem), j \in 1..Len(gem.models) : i < j => j \in OnFallback(gem)
  /\ Len(gem.sleeps) = Cardinality(RateLimited(gem.outcomes) \cap OnFallback(gem))
  /\ \A i \in OnFallback(gem) :
       gem.outcomes[i] = "other_error" =>
         (i = Len(gem.outcomes) /\ gem.pc = "raised" /\ gem.result = "reraised")

C18_Witness ==
  /\ gem.pc = "raised" /\ gem.result = "reraised" /\ ~gem.same_model
  /\ gem.models = <<"primary", "fallback", "fallback">>
  /\ gem.outcomes = <<"other_error", "rate_limit", "other_error">>
  /\ gem.sleeps = <<BackoffWait(1)>>

\* C14: at the final round (current_round >= max_rounds) evaluate_game_state
\* reports has_offer = TRUE, whatever counter_offer_rm and the floor price are.
C14_FinalRoundHasOffer ==
  (evaluation.pc = "returned" /\ evaluation.current_round >= evaluation.max_rounds) =>
    evaluation.result.has_offer
\* the calls of check_rag_for_law that returned False
Unconfirmed(confirmed) == {i \in 1..Len(confirmed) : ~confirmed[i]}

\* C12: validate_turn returns is_valid TRUE exactly when check_rag_for_law
\* confirmed every extracted citation (a text without citation is valid with
\* citations_found empty and flagged_law None); when it returns is_valid FALSE,
\* flagged_law is the raw text of the first unconfirmed citation in extraction
\* order, auditor_warning is present and citations_found lists every extracted
\* citation.
C12_VerdictOfChecks ==
  auditor.pc = "returned" =>
    LET found == extract_citations_with_regex(auditor.agent_text)
        confirmed == auditor.confirmed
        r == auditor.result
    IN
    /\ r.is_valid <=> (Len(confirmed) = Len(found) /\ Unconfirmed(confirmed) = {})
    /\ found = <<>> => (r.is_valid /\ r.citations_found = <<>> /\ r.flagged_law = NoFlag)
    /\ r.is_valid => (r.flagged_law = NoFlag /\ r.citations_found = found)
    /\ ~r.is_valid =>
         /\ Unconfirmed(confirmed) = {Len(confirmed)}
         /\ r.flagged_law = Some(found[Len(confirmed)].raw)
         /\ r.auditor_warning
         /\ r.citations_found = found

C12_Witness ==
  /\ auditor.pc = "returned" /\ ~auditor.result.is_valid
  /\ Len(auditor.agent_text) = 2 /\ auditor.agent_text[1].form = "order_rule"
  /\ Len(auditor.result.citations_found) = 2
  /\ auditor.confirmed = <<TRUE, FALSE>>
  /\ auditor.result.flagged_law = Some(RawOf(auditor.agent_text[1]))

\* phrase occurs in text and is not continued by a digit
Mentions(phrase, text) ==
  \E i \in 0..(Len(text) - Len(phrase)) :
    /\ SubSeq(text, i + 1, i + Len(phrase)) = phrase
    /\ i + Len(phrase) < Len(text) => text[i + Len(phrase) + 1] \notin Digits

\* the record names the cited law, or the cited Order number
NamesLaw(citation, metadata) ==
  \/ Mentions(normalize(citation.law), normalize(metadata.source))
  \/ Mentions(normalize(citation.law), normalize(metadata.text))

\* the record names the cited section, or the cited rule
NamesSection(citation, metadata) ==
  \/ normalize(metadata.section) = normalize(citation.section)
  \/ \E word \in {<<"section", " ">>, <<"sec", " ">>, <<"s.">>, <<"s", " ">>,
                  <<"rule", " ">>, <<"r.", " ">>} :
       Mentions(word \o normalize(citation.section), normalize(metadata.text))

\* C13: check_rag_for_law returns TRUE only when a returned record with score
\* >= MIN_SCORE names both the cited law (or the cited Order number) and the
\* cited section (or rule); it returns FALSE when no returned record names
\* them, when an API key is missing and when the lookup raises.
C13_ConfirmedByRecord ==
  auditor.confirmed # <<>> =>
    LET c == auditor.check
        Confirming == {i \in 1..Len(c.matches) :
                         /\ c.matches[i].score >= MIN_SCORE
                         /\ NamesLaw(c.citation, c.matches[i].metadata)
                         /\ NamesSection(c.citation, c.matches[i].metadata)}
    IN
    /\ c.result => (auditor.keys /\ ~c.raised /\ Confirming # {})
    /\ (~auditor.keys \/ c.raised) => ~c.result
\* what a run that met no failure writes, in order
RunWrites ==
  << StatusWrite("running"), MessageWrite("plaintiff", 1), MessageWrite("defendant", 1),
     StatusWrite("done") >>

RunEnded(t) == runs.threads[t].pc \in {"returned", "raised"}

RunWrote(t, status) ==
  \E i \in 1..Len(runs.threads[t].writes) : runs.threads[t].writes[i] = StatusWrite(status)

\* C15: a run of run_dumb_loop writes status "running", one plaintiff message
\* of round 1, one defendant message of round 1 and status "done", in this
\* order; when a step fails it writes, instead of the rest, status "error" and
\* one system message of round 0, and never status "done".  Every run
\* eventually writes status "done" or "error".
C15_RunOrder ==
  /\ [](\A t \in RunThreads :
          RunEnded(t) =>
            \/ runs.threads[t].writes = RunWrites
            \/ \E k \in 0..3 :
                 runs.threads[t].writes =
                   SubSeq(RunWrites, 1, k) \o <<StatusWrite("error"), MessageWrite("system", 0)>>)
  /\ \A t \in RunThreads :
       (runs.threads[t].pc # "idle") ~> (RunWrote(t, "done") \/ RunWrote(t, "error"))

\* C16: a run request made while the case document says "running" is answered
\* 400, and at most one run_case thread of the case is executing at any time.
C16_AtMostOneRun ==
  Cardinality({t \in RunThreads : RunActive(t)}) <= 1
StreamEnded == stream.generator = "ended"

====
